---------------------------- MODULE Spec2Model ----------------------------
(***************************************************************************)
(* A model of the API gateway: the per-request pipeline of main.py and the *)
(* engines it calls (rate_limiter.py, circuit_breaker.py, cache.py,        *)
(* router.py, security.py, auth.py), with the coordination store (redis)   *)
(* as shared state.                                                        *)
(*                                                                         *)
(* Every request slot is one gateway worker serving one request at a time. *)
(* Workers run concurrently and share the store; a worker's steps are cut  *)
(* at the store commands of the circuit breaker and at the upstream call,  *)
(* so commands of different workers interleave.  redis-py pipelines are    *)
(* MULTI/EXEC transactions and are one step.                               *)
(*                                                                         *)
(* Strings that the code splits or searches by "/" are sequences of        *)
(* segments: "api/user/bob" is <<"api", "user", "bob">>, and a leading "/" *)
(* gives a leading empty segment.                                          *)
(***************************************************************************)
EXTENDS Integers, Sequences, FiniteSets, TLC

(***************************************************************************)
(* Bounds of the model                                                     *)
(***************************************************************************)
NReq == 2               \* concurrent request slots (workers)
MaxTime == 3            \* the clock runs over 0..MaxTime
MaxFailureCount == 3    \* upstream failures stop once failure_count reaches it
MaxCallsPerSecond == 4  \* direct limiter calls of one principal in one second
MaxSelections == 4      \* direct balancer calls per worker and service name

(***************************************************************************)
(* Settings (config.py).  Each is read from the environment with os.getenv;*)
(* the model runs the deployment that sets the limits, windows, TTL and    *)
(* circuit-breaker settings to the small values below and leaves           *)
(* MAX_PAYLOAD_SIZE and ALLOWED_IPS at their defaults.                     *)
(***************************************************************************)
RATE_LIMIT_REQUESTS == 2
RATE_LIMIT_WINDOW == 2
PREMIUM_RATE_LIMIT == 3
MAX_PAYLOAD_SIZE == 10485760
CACHE_TTL == 2
CIRCUIT_BREAKER_FAILURE_THRESHOLD == 2
CIRCUIT_BREAKER_RECOVERY_TIMEOUT == 2
\* The TTL revoke_token puts on the set revoked_tokens.  auth.py has 86400
\* (24 hours), longer than every other time of the settings; the model keeps
\* it the longest and within the reach of its clock.
REVOKED_TOKENS_TTL == 3
ALLOWED_IPS == {"127.0.0.1", "::1"}
MICROSERVICES ==
    [s \in {"user-service", "order-service"} |->
        IF s = "user-service"
        THEN <<"http://localhost:8001", "http://localhost:8002">>
        ELSE <<"http://localhost:8003">>]

Services == DOMAIN MICROSERVICES
Reqs == 1..NReq
Time == 0..MaxTime

\* A hash field, header or key that is not there (None in the code).
NoField == -1
NoValue == "none"

(***************************************************************************)
(* JSON values: scalars, objects (members in order) and arrays             *)
(***************************************************************************)
JScalar(v) == [k |-> "scalar", v |-> v]
JObject(members) == [k |-> "object", members |-> members]
JArray(items) == [k |-> "array", items |-> items]
Member(key, val) == [key |-> key, val |-> val]

\* str.lower() on the object keys of the model.
Lower(key) ==
    CASE key = "Password" -> "password"
      [] key = "API_KEY" -> "api_key"
      [] OTHER -> key

sensitive_fields ==
    {"password", "token_secret", "internal_flag", "secret_key",
     "private_key", "api_key", "auth_token", "session_id"}

RECURSIVE filter_sensitive_data(_)
RECURSIVE FilterMembers(_)
RECURSIVE FilterItems(_)
FilterMembers(ms) ==
    IF ms = <<>> THEN <<>>
    ELSE IF Lower(Head(ms).key) \notin sensitive_fields
         THEN <<Member(Head(ms).key, filter_sensitive_data(Head(ms).val))>>
                  \o FilterMembers(Tail(ms))
         ELSE FilterMembers(Tail(ms))
\* The items as they are.
FilterItemsShallow(xs) == xs

FilterItems(xs) ==
    IF xs = <<>> THEN <<>>
    ELSE <<filter_sensitive_data(Head(xs))>> \o FilterItems(Tail(xs))
filter_sensitive_data(data) ==
    IF data.k = "object" THEN JObject(FilterMembers(data.members))
    ELSE IF data.k = "array" THEN JArray(FilterItems(data.items))
    ELSE data

\* Python truth value of a decoded JSON value (bool(x)).
Truthy(data) ==
    IF data.k = "object" THEN data.members # <<>>
    ELSE IF data.k = "array" THEN data.items # <<>>
    ELSE data.v \notin {"", "0", "false", "null"}

\* json.dumps / json.loads: the stored string is the text of the value.
JsonDumps(data) == <<"json", data>>
JsonLoads(text) == text[2]

(***************************************************************************)
(* Response headers (security.py 14-22, 37-41)                             *)
(***************************************************************************)
\* A header dict: the names, in lower case as the server keeps them, each
\* with its value.
HeaderDict(items) ==
    [h \in {items[i][1] : i \in DOMAIN items} |->
        items[CHOOSE i \in DOMAIN items :
                  /\ items[i][1] = h
                  /\ \A j \in DOMAIN items : items[j][1] = h => j <= i][2]]

security_headers ==
    [h \in {"x-frame-options", "x-content-type-options", "x-xss-protection",
            "strict-transport-security", "referrer-policy",
            "content-security-policy", "permissions-policy"} |->
        CASE h = "x-frame-options" -> "DENY"
          [] h = "x-content-type-options" -> "nosniff"
          [] h = "x-xss-protection" -> "1; mode=block"
          [] h = "strict-transport-security" -> "max-age=31536000; includeSubDomains"
          [] h = "referrer-policy" -> "strict-origin-when-cross-origin"
          [] h = "content-security-policy" -> "default-src 'self'"
          [] OTHER -> "geolocation=(), microphone=(), camera=()"]

\* add_security_headers: response.headers[header] = value for each of them;
\* the assignment replaces a header of the same name.
add_security_headers(response) ==
    [response EXCEPT
        !.headers = [h \in DOMAIN response.headers \union DOMAIN security_headers |->
                        IF h \in DOMAIN security_headers
                        THEN security_headers[h]
                        ELSE response.headers[h]]]

(***************************************************************************)
(* String operations on "/"-separated strings                              *)
(***************************************************************************)
\* f"/{path}"
SlashPath(path) == <<"">> \o path
\* s.count("/")
CountSlash(s) == Len(s) - 1
\* seg.startswith(pre) for a segment; no segment of the model properly
\* extends another one.
SegStartsWith(seg, pre) == seg = pre
\* "/d1/d2/" in s
ContainsDirs(s, d1, d2) ==
    \E i \in 2..Len(s) : i + 2 <= Len(s) /\ s[i] = d1 /\ s[i + 1] = d2
\* "/d1/pre" in s
ContainsDirPrefix(s, d1, pre) ==
    \E i \in 2..Len(s) :
        i + 1 <= Len(s) /\ s[i] = d1 /\ SegStartsWith(s[i + 1], pre)
\* s.startswith("d1/pre")
StartsWithDirs(s, d1, pre) ==
    Len(s) >= 2 /\ s[1] = d1 /\ SegStartsWith(s[2], pre)
\* s.startswith("/d1/pre")
StartsWithSlashDirs(s, d1, pre) ==
    Len(s) >= 3 /\ s[1] = "" /\ s[2] = d1 /\ SegStartsWith(s[3], pre)

(***************************************************************************)
(* Tokens and their decoded payloads                                       *)
(***************************************************************************)
Tokens == {"tok_alice", "tok_bob", "tok_noroles", "tok_braces", "tok_bad"}

\* A subject that is not a plain name; any string can be the sub of a token.
BracesAlice == "{}:alice"

\* jwt.decode(token, ..., verify_signature False): the payload, or
\* InvalidTokenError for a string that is no JWT.
JwtDecode(token) ==
    CASE token = "tok_alice" ->
            [ok |-> TRUE, sub |-> "alice", user_id |-> NoValue, roles |-> {"user"}]
      [] token = "tok_bob" ->
            [ok |-> TRUE, sub |-> "bob", user_id |-> NoValue, roles |-> {"user"}]
      [] token = "tok_noroles" ->
            [ok |-> TRUE, sub |-> "alice", user_id |-> NoValue, roles |-> {}]
      [] token = "tok_braces" ->
            [ok |-> TRUE, sub |-> BracesAlice, user_id |-> NoValue, roles |-> {"user"}]
      [] OTHER ->
            [ok |-> FALSE, sub |-> NoValue, user_id |-> NoValue, roles |-> {}]

\* current_user.get("sub") or current_user.get("user_id")
UserIdOf(payload) ==
    IF payload.sub # NoValue THEN payload.sub ELSE payload.user_id

UserIds == {"alice", "bob", BracesAlice}

\* The tier table user_quota:{id} of the store; the gateway only reads it.
user_quota == [u \in UserIds |-> IF u = "bob" THEN "premium" ELSE NoValue]

\* get_user_quota_info(user_id)["type"]
get_user_quota_info(user_id) ==
    IF user_id \in UserIds /\ user_quota[user_id] # NoValue
    THEN user_quota[user_id] ELSE "regular"

(***************************************************************************)
(* Requests                                                                *)
(***************************************************************************)
Param(key, val) == <<key, val>>

Request(ip, content_length, token, method, path, query) ==
    [ip |-> ip, content_length |-> content_length, token |-> token,
     method |-> method, path |-> path, query |-> query]

PUserAlice == <<"api", "user", "alice", "profile">>
PUserBob == <<"api", "user", "bob", "profile">>
PSlashUserBob == <<"", "api", "user", "bob", "x">>
PPublic == <<"api", "public", "x">>
POrder == <<"api", "order", "1">>
POther == <<"other">>
POrderPublic == <<"api", "order", "api", "public", "x">>
POrderPublicBraces == <<"api", "order", "api", "public", "x:{}">>
QRegionA == <<Param("region", "us"), Param("a", "1")>>
QARegion == <<Param("a", "1"), Param("region", "us")>>
QRegion == <<Param("region", "us")>>

\* The requests the clients of the model send.
Requests ==
    { Request("10.0.0.9", NoField, "tok_alice", "GET", PPublic, QRegionA),
      Request("127.0.0.1", MAX_PAYLOAD_SIZE + 1, "tok_alice", "POST", POrder, <<>>),
      Request("127.0.0.1", NoField, "tok_bad", "GET", PPublic, QRegionA),
      Request("127.0.0.1", NoField, "tok_alice", "GET", PUserBob, <<>>),
      Request("127.0.0.1", NoField, "tok_alice", "GET", PPublic, QRegionA),
      Request("127.0.0.1", NoField, "tok_alice", "GET", PPublic, QARegion),
      Request("127.0.0.1", 100, "tok_alice", "POST", PPublic, QRegionA),
      Request("127.0.0.1", NoField, "tok_alice", "GET", POther, <<>>),
      Request("127.0.0.1", NoField, "tok_noroles", "GET", PUserAlice, <<>>),
      Request("127.0.0.1", NoField, "tok_alice", "GET", PSlashUserBob, QRegion) }

\* Cacheable requests of three principals, two of them on the same path.
CacheRequests ==
    { Request("127.0.0.1", NoField, "tok_bob", "GET", POrderPublic, <<>>),
      Request("127.0.0.1", NoField, "tok_alice", "GET", POrderPublicBraces, <<>>),
      Request("127.0.0.1", NoField, "tok_braces", "GET", POrderPublic, <<>>) }

\* The request of the concurrent runs: it reaches the circuit of user-service
\* and is not cacheable.
CircuitRequests ==
    { Request("127.0.0.1", NoField, "tok_bob", "GET", PUserBob, <<>>) }

\* POST /auth/revoke with "Authorization: Bearer <token>".
RevokeRequests ==
    { Request("127.0.0.1", NoField, "tok_alice", "POST", <<"auth", "revoke">>, <<>>),
      Request("127.0.0.1", NoField, "tok_bad", "POST", <<"auth", "revoke">>, <<>>) }

\* POST /auth/revoke with each token of the model.
RevocationRequests ==
    { Request("127.0.0.1", NoField, tk, "POST", <<"auth", "revoke">>, <<>>) :
        tk \in Tokens }

\* GET /health; the route takes no token.
HealthRequests ==
    { Request("127.0.0.1", NoField, NoValue, "GET", <<"health">>, <<>>),
      Request("10.0.0.9", NoField, NoValue, "GET", <<"health">>, <<>>) }

NoRequest == Request(NoValue, NoField, NoValue, NoValue, <<>>, <<>>)

\* dict(request.query_params): the keys in the order of their first
\* occurrence, each with its last value.
RECURSIVE LastValue(_, _, _)
LastValue(query, key, default) ==
    IF query = <<>> THEN default
    ELSE LastValue(Tail(query), key,
                   IF Head(query)[1] = key THEN Head(query)[2] ELSE default)
RECURSIVE DictOf(_, _)
DictOf(query, all) ==
    IF query = <<>> THEN <<>>
    ELSE LET key == Head(query)[1]
             rest == SelectSeq(Tail(query), LAMBDA p : p[1] # key)
         IN <<Param(key, LastValue(all, key, NoValue))>> \o DictOf(rest, all)
query_params(req) == DictOf(req.query, req.query)

\* d.get(key)
DictGet(d, key) == LastValue(d, key, NoValue)

\* sep.join(parts)
RECURSIVE Join(_, _)
Join(parts, sep) ==
    IF parts = <<>> THEN ""
    ELSE IF Len(parts) = 1 THEN parts[1]
    ELSE parts[1] \o sep \o Join(Tail(parts), sep)

\* str(d): the items in their order in d, as {'k': 'v', ...}.
StrOfDict(d) ==
    "{" \o Join([i \in 1..Len(d) |-> "'" \o d[i][1] \o "': '" \o d[i][2] \o "'"],
                ", ")
        \o "}"

\* dict(request.headers): the model's requests carry Authorization and
\* Content-Length only; the names are lower case as the server delivers them.
headers(req) ==
    <<Param("authorization", req.token)>>
        \o (IF req.content_length = NoField THEN <<>>
            ELSE <<Param("content-length", "n")>>)

(***************************************************************************)
(* auth.py                                                                 *)
(***************************************************************************)
\* check_ip_whitelist: TRUE when the client address is let in.
check_ip_whitelist(req) ==
    ~(req.ip \notin ALLOWED_IPS /\ "0.0.0.0" \notin ALLOWED_IPS)

\* The set revoked_tokens of the store with its TTL.  The other fields keep
\* the history of the calls: ever holds every token that revoke_token was
\* called with, at the time of the last call for each token, last_at the
\* time of the last call for any token, and since the time of the first
\* call after which the key has not expired.
NoRevoked ==
    [members |-> {}, expire_at |-> NoField, ever |-> {},
     at |-> [tk \in Tokens |-> NoField], last_at |-> NoField, since |-> NoField]

\* The call leaving the TTL of an existing key as it is.
RevokeTokenKeepsTtl(revoked, token, t) ==
    [members |-> revoked.members \union {token},
     expire_at |-> IF revoked.expire_at = NoField
                   THEN t + REVOKED_TOKENS_TTL ELSE revoked.expire_at,
     ever |-> revoked.ever \union {token},
     at |-> [revoked.at EXCEPT ![token] = t],
     last_at |-> t,
     since |-> IF revoked.last_at = NoField
                    \/ t - revoked.last_at >= REVOKED_TOKENS_TTL
               THEN t ELSE revoked.since]

\* revoke_token at time t: SADD revoked_tokens token, EXPIRE revoked_tokens.
revoke_token(revoked, token, t) ==
    [members |-> revoked.members \union {token},
     expire_at |-> t + REVOKED_TOKENS_TTL,
     ever |-> revoked.ever \union {token},
     at |-> [revoked.at EXCEPT ![token] = t],
     last_at |-> t,
     since |-> IF revoked.last_at = NoField
                    \/ t - revoked.last_at >= REVOKED_TOKENS_TTL
               THEN t ELSE revoked.since]

\* The key revoked_tokens is gone when its TTL has run out.
ExpireRevoked(revoked, t) ==
    IF revoked.expire_at # NoField /\ t >= revoked.expire_at
    THEN [revoked EXCEPT !.members = {}, !.expire_at = NoField]
    ELSE revoked

\* verify_token: the payload, or a 401.
verify_token(token, revoked) ==
    IF token \in revoked.members
    THEN [ok |-> FALSE, sub |-> NoValue, user_id |-> NoValue, roles |-> {}]
    ELSE JwtDecode(token)

check_permissions(user_payload, required_roles) ==
    \E role \in required_roles : role \in user_payload.roles

check_resource_ownership(user_payload, resource_id) ==
    UserIdOf(user_payload) = resource_id

(***************************************************************************)
(* security_middleware's payload check                                     *)
(***************************************************************************)
PayloadTooLarge(req) ==
    req.content_length # NoField /\ req.content_length > MAX_PAYLOAD_SIZE

(***************************************************************************)
(* rate_limiter.py                                                         *)
(***************************************************************************)
NoBucket == [members |-> {}, expire_at |-> NoField]

MaxRequests(user_type) ==
    IF user_type = "premium" THEN PREMIUM_RATE_LIMIT ELSE RATE_LIMIT_REQUESTS

\* The pipeline without ZREMRANGEBYSCORE and EXPIRE: nothing leaves the bucket.
RateLimitPipelineKeepsAll(bucket, t) ==
    [zcard |-> Cardinality(bucket.members),
     bucket |-> [members |-> bucket.members \union {t}, expire_at |-> NoField]]

\* The pipeline with a trim that stops one second short of t - W.
RateLimitPipelineLateTrim(bucket, t) ==
    LET trimmed == {x \in bucket.members : ~(0 <= x /\ x < t - RATE_LIMIT_WINDOW)}
    IN [zcard |-> Cardinality(trimmed),
        bucket |-> [members |-> trimmed \union {t},
                    expire_at |-> t + RATE_LIMIT_WINDOW]]

\* The pipeline of check_rate_limit on one bucket at time t: ZREMRANGEBYSCORE
\* 0..t-W, ZCARD, ZADD {str(t): t}, EXPIRE W.  The member is the text of the
\* second, so two calls in one second add one member.
RateLimitPipeline(bucket, t) ==
    LET trimmed == {x \in bucket.members : ~(0 <= x /\ x <= t - RATE_LIMIT_WINDOW)}
    IN [zcard |-> Cardinality(trimmed),
        bucket |-> [members |-> trimmed \union {t},
                    expire_at |-> t + RATE_LIMIT_WINDOW]]

\* check_rate_limit: TRUE when the call returns, FALSE when it raises 429.
RateLimitAccepts(zcard, user_type) == ~(zcard >= MaxRequests(user_type))

(***************************************************************************)
(* circuit_breaker.py: the commands on the hash circuit:{service}          *)
(***************************************************************************)
NoCircuit ==
    [state |-> NoValue, failure_count |-> NoField, last_failure_time |-> NoField]

get_circuit_state(c) == IF c.state = NoValue THEN "closed" ELSE c.state

\* record_success without its HDEL.
RecordSuccessKeepsFields(c) == [c EXCEPT !.state = "closed"]

\* record_success: one pipeline, HSET state closed and HDEL the two fields.
record_success(c) ==
    [state |-> "closed", failure_count |-> NoField, last_failure_time |-> NoField]

\* The pipeline counting the failure twice.
RecordFailurePipelineTwice(c, t) ==
    [c EXCEPT !.failure_count = (IF @ = NoField THEN 0 ELSE @) + 2,
              !.last_failure_time = t]

\* record_failure, first part: one pipeline, HINCRBY failure_count 1 and
\* HSET last_failure_time.
RecordFailurePipeline(c, t) ==
    [c EXCEPT !.failure_count = (IF @ = NoField THEN 0 ELSE @) + 1,
              !.last_failure_time = t]

\* record_failure, second part: int(HGET failure_count or 0).
ReadFailureCount(c) == IF c.failure_count = NoField THEN 0 ELSE c.failure_count

\* record_failure, the test before HSET state open.
ThresholdReached(failure_count) ==
    failure_count >= CIRCUIT_BREAKER_FAILURE_THRESHOLD

\* The test with > for >=.
RecoveryElapsedStrict(last_failure_time, t) ==
    /\ last_failure_time # NoField
    /\ t - last_failure_time > CIRCUIT_BREAKER_RECOVERY_TIMEOUT

\* can_attempt_request, the test on the last_failure_time read at time t.
RecoveryElapsed(last_failure_time, t) ==
    /\ last_failure_time # NoField
    /\ t - last_failure_time >= CIRCUIT_BREAKER_RECOVERY_TIMEOUT

(***************************************************************************)
(* cache.py                                                                *)
(***************************************************************************)
should_cache_request(method, path) ==
    IF method # "GET" THEN FALSE
    ELSE IF ContainsDirs(path, "api", "user") /\ CountSlash(path) > 2 THEN FALSE
    ELSE \/ ContainsDirs(path, "api", "public")
         \/ ContainsDirs(path, "api", "config")
         \/ ContainsDirPrefix(path, "api", "health")

\* generate_cache_key: md5 is taken to be injective, so the hashed text
\* f"{method}:{path}:{query_params}" with f":{user_id}" appended stands for
\* its digest.
generate_cache_key(method, path, query_text, user_id) ==
    "cache:" \o method \o ":" \o Join(path, "/") \o ":" \o query_text
        \o (IF user_id # NoValue /\ user_id # "" THEN ":" \o user_id ELSE "")

\* get_cached_response: the decoded entry, or NoValue.
get_cached_response(entries, cache_key) ==
    IF cache_key \in DOMAIN entries
    THEN [hit |-> TRUE, data |-> JsonLoads(entries[cache_key].text)]
    ELSE [hit |-> FALSE, data |-> JScalar("")]

(***************************************************************************)
(* router.py                                                               *)
(***************************************************************************)
determine_service(path, method, hdrs, params) ==
    IF StartsWithSlashDirs(path, "api", "user") THEN "user-service"
    ELSE IF StartsWithSlashDirs(path, "api", "order") THEN "order-service"
    ELSE IF DictGet(hdrs, "X-Service-Type") \in Services
         THEN DictGet(hdrs, "X-Service-Type")
    ELSE IF DictGet(params, "region") = "us" THEN "user-service"
    ELSE NoValue

\* round_robin without the step of the cursor.
RoundRobinNoAdvance(index, service_name, urls) ==
    LET cur == IF index[service_name] = NoField THEN 0 ELSE index[service_name]
    IN [url |-> urls[cur + 1], index |-> [index EXCEPT ![service_name] = cur]]

\* round_robin: the chosen url and the cursors after the call.
round_robin(index, service_name, urls) ==
    LET cur == IF index[service_name] = NoField THEN 0 ELSE index[service_name]
    IN [url |-> urls[cur + 1],
        index |-> [index EXCEPT ![service_name] = (cur + 1) % Len(urls)]]

get_service_url(index, service_name) ==
    IF service_name \notin DOMAIN MICROSERVICES
    THEN [url |-> NoValue, index |-> index]
    ELSE IF MICROSERVICES[service_name] = <<>>
         THEN [url |-> NoValue, index |-> index]
    ELSE round_robin(index, service_name, MICROSERVICES[service_name])

\* get_target_url: base_url.rstrip("/") + path; no url of the settings ends
\* in "/".
get_target_url(index, service_name, path) ==
    LET got == get_service_url(index, service_name)
    IN IF got.url = NoValue \/ got.url = ""
       THEN [url |-> NoValue, index |-> got.index]
       ELSE [url |-> <<got.url, path>>, index |-> got.index]

(***************************************************************************)
(* gateway_handler: what the handler computes from the request alone       *)
(***************************************************************************)
RequiredRoles(path) ==
    IF StartsWithDirs(path, "api", "admin") THEN {"admin"}
    ELSE IF StartsWithDirs(path, "api", "user") THEN {"user", "admin"}
    ELSE {}

\* Lines 115-117: whether the handler compares the owner at all.
OwnershipGuard(path) ==
    ContainsDirs(path, "api", "user") /\ CountSlash(path) >= 3 /\ Len(path) >= 4

\* path_parts[3]
ResourceId(path) == path[4]

ServiceOf(rq) ==
    determine_service(SlashPath(rq.path), rq.method, headers(rq), query_params(rq))

CacheKeyOf(rq) ==
    IF should_cache_request(rq.method, SlashPath(rq.path))
    THEN generate_cache_key(rq.method, SlashPath(rq.path),
                            StrOfDict(query_params(rq)),
                            UserIdOf(JwtDecode(rq.token)))
    ELSE NoValue

Detail(text) == JObject(<<Member("detail", JScalar(text))>>)

(***************************************************************************)
(* Upstream responses                                                      *)
(***************************************************************************)
\* content_type is the content-type header, headers are the other headers.
UpstreamResponse(status, content_type, parses, data, hdrs) ==
    [status |-> status, content_type |-> content_type, parses |-> parses,
     data |-> data, headers |-> hdrs]

NoUpstream == UpstreamResponse(0, NoValue, FALSE, JScalar(""), <<>>)

NoHeaders == HeaderDict(<<>>)

\* {"name":"a","Password":"p","nested":{"API_KEY":"k","v":"1"},
\*  "items":[{"secret_key":"s","id":"7"},"x"]}
BodyProfile ==
    JObject(<<Member("name", JScalar("a")),
              Member("Password", JScalar("p")),
              Member("nested", JObject(<<Member("API_KEY", JScalar("k")),
                                         Member("v", JScalar("1"))>>)),
              Member("items", JArray(<<JObject(<<Member("secret_key", JScalar("s")),
                                               Member("id", JScalar("7"))>>),
                                       JScalar("x")>>))>>)

\* [{"error":"boom","session_id":"s"},"retry"]
BodyErrors ==
    JArray(<<JObject(<<Member("error", JScalar("boom")),
                       Member("session_id", JScalar("s"))>>),
             JScalar("retry")>>)

UpstreamResponses ==
    { UpstreamResponse(200, "application/json", TRUE, BodyProfile, NoHeaders),
      UpstreamResponse(200, "application/json", TRUE, JObject(<<>>), NoHeaders),
      UpstreamResponse(500, "application/json", TRUE, BodyErrors,
          HeaderDict(<<Param("x-frame-options", "SAMEORIGIN"),
                       Param("x-upstream", "1")>>)) }

\* Lines 162-172: the body the gateway answers with.
ResponseData(rsp) ==
    IF rsp.content_type = "application/json"
    THEN IF rsp.parses THEN filter_sensitive_data(rsp.data)
         ELSE JObject(<<Member("message", JScalar("Invalid JSON response"))>>)
    ELSE JObject(<<Member("content", rsp.data)>>)

(***************************************************************************)
(* circuit_breaker.py: the three operations, each run to its end           *)
(***************************************************************************)
record_failure(c, t) ==
    LET counted == RecordFailurePipeline(c, t)
    IN IF ThresholdReached(ReadFailureCount(counted))
       THEN [counted EXCEPT !.state = "open"]
       ELSE counted

\* can_attempt_request at time t: the answer and the hash after the call.
can_attempt_request(c, t) ==
    LET state == get_circuit_state(c)
    IN IF state = "closed" THEN [ok |-> TRUE, circuit |-> c]
       ELSE IF state = "open"
            THEN IF RecoveryElapsed(c.last_failure_time, t)
                 THEN [ok |-> TRUE, circuit |-> [c EXCEPT !.state = "half_open"]]
                 ELSE [ok |-> FALSE, circuit |-> c]
       ELSE IF state = "half_open" THEN [ok |-> TRUE, circuit |-> c]
       ELSE [ok |-> FALSE, circuit |-> c]

(***************************************************************************)
(* State                                                                   *)
(***************************************************************************)
VARIABLES
    now,             \* int(time.time())
    rate_limit,      \* store: rate_limit:user:{id}, a sorted set with a TTL
    circuit,         \* store: circuit:{service}, a hash
    cache,           \* store: cache:{md5}, a string with a TTL
    revoked_tokens,  \* store: the set revoked_tokens, with its TTL
    current_index,   \* each worker's LoadBalancer.current_index
    pc,              \* where each worker's request stands
    req,             \* the request a worker serves
    loc,             \* the handler's locals
    resp,            \* the response the worker gave
    limiter_log,     \* history of the direct calls of check_rate_limit
    breaker_log,     \* history of the direct calls of the circuit breaker
    balancer_log     \* history of the direct calls of the load balancer

vars ==
    <<now, rate_limit, circuit, cache, revoked_tokens, current_index,
      pc, req, loc, resp, limiter_log, breaker_log, balancer_log>>

store == <<rate_limit, circuit, cache, revoked_tokens>>
workers == <<current_index, pc, req, loc, resp>>
logs == <<limiter_log, breaker_log, balancer_log>>

\* target_url, the kind of the upstream error, whether check_rate_limit
\* returned for this request, and the circuit state that record_failure
\* found when it began.
NoLocals ==
    [target_url |-> NoValue, error |-> NoValue, rate_ok |-> FALSE,
     found |-> NoValue]

\* A response: status, body and headers; from says what made it, and
\* upstream is the upstream response behind it, if there is one.
Response(status, body, from) ==
    [status |-> status, body |-> body, from |-> from, headers |-> NoHeaders,
     upstream |-> NoUpstream]

NoResponse == Response(0, JScalar(""), NoValue)

\* Per principal: the calls made in the current second, the calls accepted
\* in each of the last RATE_LIMIT_WINDOW seconds (the current one first), and
\* the answers to the calls made since a call last found the bucket empty,
\* while they fall within one window of that call; last_at is the time of
\* the last call and idle the time between the last call and the one before.
NoLimiterLog ==
    [calls |-> 0,
     accepted |-> [i \in 1..RATE_LIMIT_WINDOW |-> 0],
     run_start |-> NoField,
     run |-> <<>>,
     last_at |-> NoField,
     idle |-> NoField]

NoCall == [op |-> NoValue, ok |-> FALSE, at |-> NoField]

\* Per service: the record_failure calls since the last record_success, the
\* time of the last record_failure, whether a record_success has completed
\* and the state the last one found, and the last call with its answer.
NoBreakerLog ==
    [fail_run |-> 0, last_failure_at |-> NoField, after_success |-> FALSE,
     success_found |-> NoValue, last_call |-> NoCall]

\* Per worker: the urls get_service_url returned for each service, in the
\* order of the calls, and the number of calls it answered with None.
NoBalancerLog == [picked |-> [s \in Services |-> <<>>], refused |-> 0]

Init ==
    /\ now = 0
    /\ rate_limit = [u \in UserIds |-> NoBucket]
    /\ circuit = [s \in Services |-> NoCircuit]
    /\ cache = <<>>
    /\ revoked_tokens = NoRevoked
    /\ current_index = [r \in Reqs |-> [s \in Services |-> NoField]]
    /\ pc = [r \in Reqs |-> "idle"]
    /\ req = [r \in Reqs |-> NoRequest]
    /\ loc = [r \in Reqs |-> NoLocals]
    /\ resp = [r \in Reqs |-> NoResponse]
    /\ limiter_log = [u \in UserIds |-> NoLimiterLog]
    /\ breaker_log = [s \in Services |-> NoBreakerLog]
    /\ balancer_log = [r \in Reqs |-> NoBalancerLog]

\* The response goes out to the client, the locals are gone.
Return(r, response) ==
    /\ pc' = [pc EXCEPT ![r] = "done"]
    /\ resp' = [resp EXCEPT ![r] = response]
    /\ loc' = [loc EXCEPT ![r] = NoLocals]

\* The handler returns or raises an HTTPException: call_next gives the
\* response to security_middleware, which adds the security headers
\* (main.py 56-61).
Respond(r, status, body, from) ==
    Return(r, add_security_headers(Response(status, body, from)))

\* The handler goes on at `label` with the locals `locals`.
Goto(r, label, locals) ==
    /\ pc' = [pc EXCEPT ![r] = label]
    /\ loc' = [loc EXCEPT ![r] = locals]
    /\ UNCHANGED resp

(***************************************************************************)
(* security_middleware, before call_next (main.py 37-54)                   *)
(***************************************************************************)
SecurityMiddleware(r, rq) ==
    /\ pc[r] \in {"idle", "done"}
    /\ req' = [req EXCEPT ![r] = rq]
    /\ IF ~check_ip_whitelist(rq)
       THEN Return(r, Response(403, Detail("IP address not allowed"), "gateway"))
       ELSE IF PayloadTooLarge(rq)
            THEN Return(r, Response(413, Detail("Payload too large"), "gateway"))
       ELSE /\ pc' = [pc EXCEPT ![r] = "auth"]
            /\ loc' = [loc EXCEPT ![r] = NoLocals]
            /\ resp' = [resp EXCEPT ![r] = NoResponse]
    /\ UNCHANGED <<now, store, current_index, logs>>

(***************************************************************************)
(* The routes /health and /auth/revoke behind security_middleware          *)
(* (main.py 63-77)                                                         *)
(***************************************************************************)
\* What security_middleware answers by itself, without the security headers
\* (main.py 41-54); NoResponse when it calls the route.
MiddlewareRejection(rq) ==
    IF ~check_ip_whitelist(rq)
    THEN Response(403, Detail("IP address not allowed"), "gateway")
    ELSE IF PayloadTooLarge(rq)
         THEN Response(413, Detail("Payload too large"), "gateway")
    ELSE NoResponse

\* GET /health.  The timestamp is a float of the wall clock, here "time".
health_check(r, rq) ==
    /\ pc[r] \in {"idle", "done"}
    /\ req' = [req EXCEPT ![r] = rq]
    /\ IF MiddlewareRejection(rq) # NoResponse
       THEN Return(r, MiddlewareRejection(rq))
       ELSE Respond(r, 200,
                    JObject(<<Member("status", JScalar("healthy")),
                              Member("timestamp", JScalar("time"))>>),
                    "health")
    /\ UNCHANGED <<now, store, current_index, logs>>

\* POST /auth/revoke: get_current_user, then revoke_token on the token of
\* the Authorization header.
revoke(r, rq) ==
    /\ pc[r] \in {"idle", "done"}
    /\ req' = [req EXCEPT ![r] = rq]
    /\ IF MiddlewareRejection(rq) # NoResponse
       THEN Return(r, MiddlewareRejection(rq)) /\ UNCHANGED revoked_tokens
       ELSE IF ~verify_token(rq.token, revoked_tokens).ok
            THEN /\ Respond(r, 401, Detail("Invalid token"), "gateway")
                 /\ UNCHANGED revoked_tokens
       ELSE /\ revoked_tokens' = revoke_token(revoked_tokens, rq.token, now)
            /\ Respond(r, 200,
                        JObject(<<Member("message",
                                         JScalar("Token revoked successfully"))>>),
                        "revoke")
    /\ UNCHANGED <<now, rate_limit, circuit, cache, current_index, logs>>

(***************************************************************************)
(* get_current_user (auth.py 83-86, 43-63)                                 *)
(***************************************************************************)
GetCurrentUser(r) ==
    /\ pc[r] = "auth"
    /\ IF verify_token(req[r].token, revoked_tokens).ok
       THEN Goto(r, "quota", loc[r])
       ELSE Respond(r, 401, Detail("Invalid token"), "gateway")
    /\ UNCHANGED <<now, store, current_index, req, logs>>

(***************************************************************************)
(* gateway_handler: rate limiting (main.py 87-97)                          *)
(***************************************************************************)
RateLimit(r) ==
    /\ pc[r] = "quota"
    /\ LET user_id == UserIdOf(JwtDecode(req[r].token))
           user_type == get_user_quota_info(user_id)
           out == RateLimitPipeline(rate_limit[user_id], now)
       IN /\ rate_limit' = [rate_limit EXCEPT ![user_id] = out.bucket]
          /\ IF RateLimitAccepts(out.zcard, user_type)
             THEN Goto(r, "route", [loc[r] EXCEPT !.rate_ok = TRUE])
             ELSE Respond(r, 429, Detail("Rate limit exceeded"), "gateway")
    /\ UNCHANGED <<now, circuit, cache, revoked_tokens, current_index, req, logs>>

(***************************************************************************)
(* gateway_handler: routing, roles, ownership, cache lookup (99-130)       *)
(***************************************************************************)
RouteAndLookup(r) ==
    /\ pc[r] = "route"
    /\ LET path == req[r].path
           user == JwtDecode(req[r].token)
           cache_key == CacheKeyOf(req[r])
           cached == get_cached_response(cache, cache_key)
       IN IF ServiceOf(req[r]) = NoValue
          THEN Respond(r, 404, Detail("Service not found"), "gateway")
          ELSE IF RequiredRoles(path) # {}
                  /\ ~check_permissions(user, RequiredRoles(path))
               THEN Respond(r, 403, Detail("Insufficient permissions"), "gateway")
          ELSE IF OwnershipGuard(path)
                  /\ ~check_resource_ownership(user, ResourceId(path))
               THEN Respond(r, 403,
                        Detail("Access denied: resource ownership check failed"),
                        "gateway")
          ELSE IF cache_key # NoValue /\ cached.hit /\ Truthy(cached.data)
               THEN Respond(r, 200, cached.data, "cache")
          ELSE Goto(r, "admit", loc[r])
    /\ UNCHANGED <<now, store, current_index, req, logs>>

(***************************************************************************)
(* gateway_handler after a granted admission: replica, headers, body       *)
(* (main.py 136-146)                                                       *)
(***************************************************************************)
SelectReplica(r) ==
    LET got == get_target_url(current_index[r], ServiceOf(req[r]),
                              SlashPath(req[r].path))
    IN /\ current_index' = [current_index EXCEPT ![r] = got.index]
       /\ IF got.url = NoValue
          THEN Respond(r, 502, Detail("Service unavailable"), "gateway")
          ELSE Goto(r, "forward", [loc[r] EXCEPT !.target_url = got.url])

(***************************************************************************)
(* can_attempt_request, command by command (circuit_breaker.py 49-68)      *)
(***************************************************************************)
\* HGET state; closed and half_open return True at once.
AdmitReadState(r) ==
    /\ pc[r] = "admit"
    /\ LET state == get_circuit_state(circuit[ServiceOf(req[r])])
       IN IF state = "open"
          THEN Goto(r, "admit_open", loc[r]) /\ UNCHANGED current_index
          ELSE IF state \in {"closed", "half_open"}
               THEN SelectReplica(r)
          ELSE /\ Respond(r, 503, Detail("Service temporarily unavailable"),
                          "gateway")
               /\ UNCHANGED current_index
    /\ UNCHANGED <<now, store, req, logs>>

\* HGET last_failure_time and the test of the recovery timeout.
AdmitReadLastFailure(r) ==
    /\ pc[r] = "admit_open"
    /\ IF RecoveryElapsed(circuit[ServiceOf(req[r])].last_failure_time, now)
       THEN Goto(r, "admit_half_open", loc[r])
       ELSE Respond(r, 503, Detail("Service temporarily unavailable"), "gateway")
    /\ UNCHANGED <<now, store, current_index, req, logs>>

\* HSET state half_open, return True.
AdmitSetHalfOpen(r) ==
    /\ pc[r] = "admit_half_open"
    /\ circuit' = [circuit EXCEPT ![ServiceOf(req[r])].state = "half_open"]
    /\ SelectReplica(r)
    /\ UNCHANGED <<now, rate_limit, cache, revoked_tokens, req, logs>>

(***************************************************************************)
(* The upstream call (main.py 148-157)                                     *)
(***************************************************************************)
Forward(r) ==
    /\ pc[r] = "forward"
    /\ Goto(r, "inflight", loc[r])
    /\ UNCHANGED <<now, store, current_index, req, logs>>

\* cache_response: SETEX key ttl json.dumps(data).  by, status and upstream
\* record the request and the upstream response behind the entry.
cache_response(entries, cache_key, data, t, by, rsp) ==
    [key \in DOMAIN entries \union {cache_key} |->
        IF key = cache_key
        THEN [text |-> JsonDumps(data), expire_at |-> t + CACHE_TTL,
              by |-> by, status |-> rsp.status, upstream |-> rsp]
        ELSE entries[key]]

\* The test without the status.
CacheWrittenAnyStatus(cache_key, status) == cache_key # NoValue

\* Lines 174-175: whether the response is written to the cache.
CacheWritten(cache_key, status) == cache_key # NoValue /\ status = 200

\* The upstream answered (main.py 159-182).
UpstreamResponds(r, rsp) ==
    /\ pc[r] = "inflight"
    /\ circuit' = [circuit EXCEPT
                      ![ServiceOf(req[r])] = record_success(circuit[ServiceOf(req[r])])]
    /\ cache' = IF CacheWritten(CacheKeyOf(req[r]), rsp.status)
                THEN cache_response(cache, CacheKeyOf(req[r]), ResponseData(rsp),
                                    now, req[r], rsp)
                ELSE cache
    /\ Return(r, add_security_headers(
                    [Response(rsp.status, ResponseData(rsp), "upstream")
                        EXCEPT !.headers = rsp.headers, !.upstream = rsp]))
    /\ UNCHANGED <<now, rate_limit, revoked_tokens, current_index, req, logs>>

\* The upstream call raised (main.py 184-190).  httpx.TimeoutException is a
\* subclass of httpx.RequestError, so the first except clause takes both
\* kinds.  Then record_failure's pipeline (circuit_breaker.py 35-42).
UpstreamFails(r, kind) ==
    /\ pc[r] = "inflight"
    /\ ReadFailureCount(circuit[ServiceOf(req[r])]) < MaxFailureCount
    /\ circuit' = [circuit EXCEPT
                      ![ServiceOf(req[r])] =
                          RecordFailurePipeline(circuit[ServiceOf(req[r])], now)]
    /\ Goto(r, "failure_read",
            [loc[r] EXCEPT !.error = kind,
                           !.found = get_circuit_state(circuit[ServiceOf(req[r])])])
    /\ UNCHANGED <<now, rate_limit, cache, revoked_tokens, current_index, req, logs>>

\* record_failure: HGET failure_count and the threshold test (43, 46).
FailureReadCount(r) ==
    /\ pc[r] = "failure_read"
    /\ IF ThresholdReached(ReadFailureCount(circuit[ServiceOf(req[r])]))
       THEN Goto(r, "failure_open", loc[r])
       ELSE Respond(r, 502, Detail("Service request failed"), loc[r].error)
    /\ UNCHANGED <<now, store, current_index, req, logs>>

\* record_failure: HSET state open (47), then the 502 of line 187.
FailureSetOpen(r) ==
    /\ pc[r] = "failure_open"
    /\ circuit' = [circuit EXCEPT ![ServiceOf(req[r])].state = "open"]
    /\ Respond(r, 502, Detail("Service request failed"), loc[r].error)
    /\ UNCHANGED <<now, rate_limit, cache, revoked_tokens, current_index, req, logs>>

(***************************************************************************)
(* The clock and the TTLs of the store                                     *)
(***************************************************************************)
ExpireBucket(bucket, t) ==
    IF bucket.expire_at # NoField /\ t >= bucket.expire_at THEN NoBucket ELSE bucket

ExpireCache(entries, t) ==
    [key \in {k \in DOMAIN entries : t < entries[k].expire_at} |-> entries[key]]

\* A new second: no call yet, and the accepted counts move one place.
ShiftLimiterLog(g) ==
    [g EXCEPT !.calls = 0,
              !.accepted = [i \in 1..RATE_LIMIT_WINDOW |->
                               IF i = 1 THEN 0 ELSE g.accepted[i - 1]]]

Tick ==
    /\ now < MaxTime
    /\ now' = now + 1
    /\ rate_limit' = [u \in UserIds |-> ExpireBucket(rate_limit[u], now + 1)]
    /\ cache' = ExpireCache(cache, now + 1)
    /\ revoked_tokens' = ExpireRevoked(revoked_tokens, now + 1)
    /\ limiter_log' = [u \in UserIds |-> ShiftLimiterLog(limiter_log[u])]
    /\ UNCHANGED <<circuit, workers, breaker_log, balancer_log>>

\* The steps of the workers in `ws`, for clients sending `requests` and
\* upstreams answering with `responses` or failing with `errors`.
Pipeline(ws, requests, responses, errors) ==
    \/ \E r \in ws, rq \in requests : SecurityMiddleware(r, rq)
    \/ \E r \in ws : GetCurrentUser(r)
    \/ \E r \in ws : RateLimit(r)
    \/ \E r \in ws : RouteAndLookup(r)
    \/ \E r \in ws : AdmitReadState(r)
    \/ \E r \in ws : AdmitReadLastFailure(r)
    \/ \E r \in ws : AdmitSetHalfOpen(r)
    \/ \E r \in ws : Forward(r)
    \/ \E r \in ws, rsp \in responses : UpstreamResponds(r, rsp)
    \/ \E r \in ws, kind \in errors : UpstreamFails(r, kind)
    \/ \E r \in ws : FailureReadCount(r)
    \/ \E r \in ws : FailureSetOpen(r)

\* One worker serving every request of the model, one after the other.
Next ==
    \/ Pipeline({1}, Requests, UpstreamResponses, {"transport", "timeout"})
    \/ \E rq \in HealthRequests : health_check(1, rq)
    \/ \E rq \in RevokeRequests : revoke(1, rq)
    \/ Tick

Spec == Init /\ [][Next]_vars

\* All workers at once on the requests that reach the circuit breaker.
NextConcurrent ==
    Pipeline(Reqs, CircuitRequests,
             {rsp \in UpstreamResponses : rsp.status = 500}, {"transport"})
        \/ Tick

SpecConcurrent == Init /\ [][NextConcurrent]_vars

\* One worker serving POST /auth/revoke for every token while time passes.
NextRevocation ==
    \/ \E rq \in RevocationRequests : revoke(1, rq)
    \/ Tick

SpecRevocation == Init /\ [][NextRevocation]_vars

\* One worker serving the cacheable requests, one after the other.
NextCache ==
    Pipeline({1}, CacheRequests,
             {rsp \in UpstreamResponses : rsp.data = BodyProfile}, {"transport"})
        \/ Tick

SpecCache == Init /\ [][NextCache]_vars

(***************************************************************************)
(* The pipeline with a store that can fail                                 *)
(***************************************************************************)
\* A store command raises redis.RedisError.  Neither rate_limiter.py nor
\* circuit_breaker.py catches it, gateway_handler catches HTTPException
\* around check_rate_limit only (main.py 91-97) and nothing around
\* can_attempt_request (133), and security_middleware does not catch what
\* call_next raises: the server answers 500 "Internal Server Error".
ServerError(from) == Response(500, JScalar("Internal Server Error"), from)

\* The store fails in get_user_quota_info or check_rate_limit.
RateLimitStoreFails(r) ==
    /\ pc[r] = "quota"
    /\ Return(r, ServerError("store_at_rate_limit"))
    /\ UNCHANGED <<now, store, current_index, req, logs>>

\* The store fails in one of the commands of can_attempt_request.
AdmissionStoreFails(r) ==
    /\ pc[r] \in {"admit", "admit_open", "admit_half_open"}
    /\ Return(r, ServerError("store_at_circuit"))
    /\ UNCHANGED <<now, store, current_index, req, logs>>

NextOutage ==
    \/ Pipeline({1}, CircuitRequests, UpstreamResponses, {"transport"})
    \/ RateLimitStoreFails(1)
    \/ AdmissionStoreFails(1)
    \/ Tick

SpecOutage == Init /\ [][NextOutage]_vars

(***************************************************************************)
(* check_rate_limit called directly, one call after the other              *)
(***************************************************************************)
LogLimiterCall(g, was_empty, ok, t, limit) ==
    LET start == IF was_empty THEN t ELSE g.run_start
        before == IF was_empty THEN <<>> ELSE g.run
        in_run == /\ start # NoField
                  /\ t - start < RATE_LIMIT_WINDOW
                  /\ Len(before) <= limit
    IN [calls |-> g.calls + 1,
        accepted |-> [g.accepted EXCEPT ![1] = @ + (IF ok THEN 1 ELSE 0)],
        run_start |-> IF in_run THEN start ELSE NoField,
        run |-> IF in_run THEN Append(before, ok) ELSE <<>>,
        last_at |-> t,
        idle |-> IF g.last_at = NoField THEN NoField ELSE t - g.last_at]

CallCheckRateLimit(u) ==
    /\ limiter_log[u].calls < MaxCallsPerSecond
    /\ LET out == RateLimitPipeline(rate_limit[u], now)
           ok == RateLimitAccepts(out.zcard, get_user_quota_info(u))
       IN /\ rate_limit' = [rate_limit EXCEPT ![u] = out.bucket]
          /\ limiter_log' =
                [limiter_log EXCEPT
                    ![u] = LogLimiterCall(@, rate_limit[u].members = {}, ok, now,
                                          MaxRequests(get_user_quota_info(u)))]
    /\ UNCHANGED <<now, circuit, cache, revoked_tokens, workers, breaker_log, balancer_log>>

\* The principals calling the limiter directly: one of each tier.
LimiterPrincipals == {"alice", "bob"}

NextLimiter == (\E u \in LimiterPrincipals : CallCheckRateLimit(u)) \/ Tick

SpecLimiter == Init /\ [][NextLimiter]_vars

(***************************************************************************)
(* The circuit breaker called directly, one call after the other           *)
(***************************************************************************)
Call(op, ok, t) == [op |-> op, ok |-> ok, at |-> t]

CallRecordFailure(s) ==
    /\ ReadFailureCount(circuit[s]) < MaxFailureCount
    /\ circuit' = [circuit EXCEPT ![s] = record_failure(@, now)]
    /\ breaker_log' =
          [breaker_log EXCEPT
              ![s] = [@ EXCEPT !.fail_run = @ + 1,
                               !.last_failure_at = now,
                               !.last_call = Call("record_failure", TRUE, now)]]
    /\ UNCHANGED <<now, rate_limit, cache, revoked_tokens, workers, limiter_log, balancer_log>>

CallRecordSuccess(s) ==
    /\ circuit' = [circuit EXCEPT ![s] = record_success(@)]
    /\ breaker_log' =
          [breaker_log EXCEPT
              ![s] = [@ EXCEPT !.fail_run = 0,
                               !.after_success = TRUE,
                               !.success_found = get_circuit_state(circuit[s]),
                               !.last_call = Call("record_success", TRUE, now)]]
    /\ UNCHANGED <<now, rate_limit, cache, revoked_tokens, workers, limiter_log, balancer_log>>

CallCanAttemptRequest(s) ==
    /\ LET out == can_attempt_request(circuit[s], now)
       IN /\ circuit' = [circuit EXCEPT ![s] = out.circuit]
          /\ breaker_log' =
                [breaker_log EXCEPT
                    ![s].last_call = Call("can_attempt_request", out.ok, now)]
    /\ UNCHANGED <<now, rate_limit, cache, revoked_tokens, workers, limiter_log, balancer_log>>

NextCircuit ==
    \/ \E s \in Services : CallRecordFailure(s)
    \/ \E s \in Services : CallRecordSuccess(s)
    \/ \E s \in Services : CallCanAttemptRequest(s)
    \/ Tick

SpecCircuit == Init /\ [][NextCircuit]_vars

(***************************************************************************)
(* The load balancer of each worker called directly                        *)
(***************************************************************************)
\* The names get_service_url is called with: the configured services and
\* one that is not configured.
ServiceNames == Services \union {"unknown-service"}

CallGetServiceUrl(r, service_name) ==
    /\ LET got == get_service_url(current_index[r], service_name)
           g == balancer_log[r]
       IN /\ IF got.url = NoValue
             THEN /\ g.refused < MaxSelections
                  /\ balancer_log' = [balancer_log EXCEPT ![r].refused = @ + 1]
             ELSE /\ Len(g.picked[service_name]) < MaxSelections
                  /\ balancer_log' =
                        [balancer_log EXCEPT
                            ![r].picked[service_name] = Append(@, got.url)]
          /\ current_index' = [current_index EXCEPT ![r] = got.index]
    /\ UNCHANGED <<now, store, pc, req, loc, resp, limiter_log, breaker_log>>

\* Two workers, each with its own LoadBalancer.
BalancerWorkers == {1, NReq}

NextBalancer ==
    \E r \in BalancerWorkers, service_name \in ServiceNames :
        CallGetServiceUrl(r, service_name)

SpecBalancer == Init /\ [][NextBalancer]_vars

(***************************************************************************)
(* The seven admission steps as the specification words them               *)
(***************************************************************************)
Subject(rq) == UserIdOf(JwtDecode(rq.token))

\* The path is /api/user/{id}/...: at least three segments after /api.
UnderUserResource(path) ==
    Len(path) >= 4 /\ path[1] = "api" /\ path[2] = "user"

\* The request is for the resource of another principal.
ForeignResource(rq) ==
    UnderUserResource(rq.path) /\ rq.path[3] # Subject(rq)

RoleStepPasses(rq) ==
    /\ StartsWithDirs(rq.path, "api", "admin") => "admin" \in JwtDecode(rq.token).roles
    /\ StartsWithDirs(rq.path, "api", "user") =>
          JwtDecode(rq.token).roles \cap {"user", "admin"} # {}

\* The worker has issued the upstream call of its request.
UpstreamCalled(r) == pc[r] \in {"inflight", "failure_read", "failure_open"}

\* The worker is past the ownership step and has not been turned away.
PastOwnership(r) ==
    \/ pc[r] \in {"admit", "admit_open", "admit_half_open", "forward"}
    \/ UpstreamCalled(r)
    \/ pc[r] = "done" /\ resp[r].from # "gateway"

\* C1: an upstream call is issued for a request only if the request passed
\* the IP allowlist, the payload-size check, token verification, the
\* rate-limit check, routing, the role check and the ownership check.
C1_UpstreamOnlyAfterSevenSteps ==
    \A r \in Reqs :
        UpstreamCalled(r) =>
            /\ req[r].ip \in ALLOWED_IPS \/ "0.0.0.0" \in ALLOWED_IPS
            /\ req[r].content_length = NoField
                  \/ req[r].content_length <= MAX_PAYLOAD_SIZE
            /\ JwtDecode(req[r].token).ok
            /\ req[r].token \notin revoked_tokens.members
            /\ loc[r].rate_ok
            /\ ServiceOf(req[r]) # NoValue
            /\ RoleStepPasses(req[r])
            /\ ~ForeignResource(req[r])

\* C5: an authenticated request for /api/user/{id}/... whose subject is not
\* {id} is answered 403 (unless an earlier step turned it away) and is
\* neither forwarded nor served from the cache.
C5_ForeignResourceDenied ==
    \A r \in Reqs :
        ForeignResource(req[r]) /\ JwtDecode(req[r].token).ok =>
            /\ ~PastOwnership(r)
            /\ pc[r] = "done" => resp[r].status \in {403, 413, 429}

(***************************************************************************)
(* The circuit and concurrent requests                                     *)
(***************************************************************************)
\* C2: while the stored state of a service is open, no request is forwarded
\* to it until now - last_failure_time >= recovery_timeout.
C2_NoForwardWhileOpen ==
    [][\A r \in Reqs :
          pc[r] = "forward" /\ pc'[r] = "inflight" =>
              LET c == circuit[ServiceOf(req[r])]
              IN c.state = "open" =>
                    /\ c.last_failure_time # NoField
                    /\ now - c.last_failure_time >= CIRCUIT_BREAKER_RECOVERY_TIMEOUT]_vars

(***************************************************************************)
(* The rate limiter                                                        *)
(***************************************************************************)
RECURSIVE SumTo(_, _)
SumTo(counts, n) == IF n = 0 THEN 0 ELSE counts[n] + SumTo(counts, n - 1)

LimitFor(u) == MaxRequests(get_user_quota_info(u))

\* C3: in every window of W consecutive seconds a principal has at most
\* limit + 1 calls accepted.
C3_AcceptedPerWindow ==
    \A u \in UserIds :
        SumTo(limiter_log[u].accepted, RATE_LIMIT_WINDOW) <= LimitFor(u) + 1

\* C4: of L + 1 calls made within W seconds from an empty bucket the first L
\* are admitted and the last is rejected.
C4_BoundaryCallRejected ==
    \A u \in UserIds :
        \A i \in 1..Len(limiter_log[u].run) :
            /\ i <= LimitFor(u) => limiter_log[u].run[i]
            /\ i = LimitFor(u) + 1 => ~limiter_log[u].run[i]

(***************************************************************************)
(* The circuit breaker, call by call                                       *)
(***************************************************************************)
\* C6: after at least threshold failures in a row from a closed circuit,
\* can_attempt_request answers false and leaves the state open while
\* now - last_failure_time < recovery_timeout, and answers true and stores
\* half_open once the timeout has passed.
C6_OpenUntilRecoveryTimeout ==
    \A s \in Services :
        LET g == breaker_log[s]
        IN g.last_call.op = "can_attempt_request"
              /\ g.fail_run >= CIRCUIT_BREAKER_FAILURE_THRESHOLD =>
                 IF g.last_call.at - g.last_failure_at
                        < CIRCUIT_BREAKER_RECOVERY_TIMEOUT
                 THEN ~g.last_call.ok /\ circuit[s].state = "open"
                 ELSE g.last_call.ok /\ circuit[s].state = "half_open"

\* The admission check at the very second the timeout has passed.
C6_Witness ==
    \E s \in Services :
        LET g == breaker_log[s]
        IN /\ g.last_call.op = "can_attempt_request"
           /\ g.fail_run >= CIRCUIT_BREAKER_FAILURE_THRESHOLD
           /\ g.last_call.at - g.last_failure_at = CIRCUIT_BREAKER_RECOVERY_TIMEOUT
           /\ g.last_call.ok
           /\ circuit[s].state = "half_open"

\* C7: a completed record_success leaves state closed with failure_count and
\* last_failure_time absent, and fewer than threshold failures after it do
\* not open the circuit.
C7_SuccessResets ==
    \A s \in Services :
        LET g == breaker_log[s]
        IN /\ g.last_call.op = "record_success" =>
                 /\ circuit[s].state = "closed"
                 /\ circuit[s].failure_count = NoField
                 /\ circuit[s].last_failure_time = NoField
           /\ g.after_success /\ g.fail_run < CIRCUIT_BREAKER_FAILURE_THRESHOLD =>
                 /\ circuit[s].state = "closed"
                 /\ ReadFailureCount(circuit[s]) = g.fail_run

\* A success on an open circuit, then threshold - 1 failures.
C7_Witness ==
    \E s \in Services :
        LET g == breaker_log[s]
        IN /\ g.success_found = "open"
           /\ g.last_call.op = "record_failure"
           /\ g.fail_run = CIRCUIT_BREAKER_FAILURE_THRESHOLD - 1
           /\ circuit[s].state = "closed"

(***************************************************************************)
(* The response cache                                                      *)
(***************************************************************************)
RECURSIVE CountOf(_, _)
CountOf(query, x) ==
    IF query = <<>> THEN 0
    ELSE (IF Head(query) = x THEN 1 ELSE 0) + CountOf(Tail(query), x)

\* Two query strings with the same multiset of parameters.
SameParameters(q1, q2) ==
    \A x \in {q1[i] : i \in DOMAIN q1} \union {q2[i] : i \in DOMAIN q2} :
        CountOf(q1, x) = CountOf(q2, x)

\* C8: the cache key of a request equals the key of every request with the
\* same method, path and principal and the same multiset of parameters.
C8_CacheKeyCanonical ==
    \A r \in Reqs, key \in DOMAIN cache :
        /\ PastOwnership(r)
        /\ CacheKeyOf(req[r]) # NoValue
        /\ req[r].method = cache[key].by.method
        /\ req[r].path = cache[key].by.path
        /\ Subject(req[r]) = Subject(cache[key].by)
        /\ SameParameters(req[r].query, cache[key].by.query)
        => CacheKeyOf(req[r]) = key

\* C9: when an entry exists under the key of an eligible request, the lookup
\* ends the pipeline: 200 with the stored body, no upstream call, no replica
\* chosen, the circuit record untouched.
C9_CacheHitEndsPipeline ==
    [][\A r \in Reqs :
          LET key == CacheKeyOf(req[r])
          IN /\ pc[r] = "route"
             /\ pc'[r] # "route"
             /\ key # NoValue
             /\ key \in DOMAIN cache
             /\ ~(pc'[r] = "done" /\ resp'[r].status \in {403, 404})
             => /\ pc'[r] = "done"
                /\ resp'[r].status = 200
                /\ resp'[r].body = JsonLoads(cache[key].text)
                /\ resp'[r].from = "cache"
                /\ current_index' = current_index
                /\ circuit' = circuit]_vars

\* C10: every cache entry was written for a GET request with a
\* cache-eligible path whose upstream status was 200.
C10_CacheOnlyGet200 ==
    \A key \in DOMAIN cache :
        /\ cache[key].by.method = "GET"
        /\ should_cache_request(cache[key].by.method, SlashPath(cache[key].by.path))
        /\ cache[key].status = 200
        /\ key = CacheKeyOf(cache[key].by)

\* An entry is there, and a POST to a cacheable path got its 200 from the
\* upstream without an entry made for it.
C10_Witness ==
    /\ cache # <<>>
    /\ \E r \in Reqs :
          /\ pc[r] = "done"
          /\ req[r].method = "POST"
          /\ req[r].path = PPublic
          /\ resp[r].from = "upstream"
          /\ resp[r].status = 200

(***************************************************************************)
(* Token revocation                                                        *)
(***************************************************************************)
\* C11: after revoke_token(t) every later verify_token(t) fails, a request
\* carrying t is answered 401 before the rate limiter is touched, and
\* revoke_token(t) applied twice leaves the same set as applied once.
C11_RevokedStaysRevoked ==
    [][/\ \A r \in Reqs :
             /\ pc[r] = "auth"
             /\ pc'[r] # "auth"
             /\ req[r].token \in revoked_tokens.ever
             => /\ pc'[r] = "done"
                /\ resp'[r].status = 401
                /\ rate_limit' = rate_limit
       /\ \A t \in revoked_tokens.ever : ~verify_token(t, revoked_tokens).ok
       /\ \A t \in Tokens :
             revoke_token(revoke_token(revoked_tokens, t, now), t, now).members
                 = revoke_token(revoked_tokens, t, now).members]_vars

(***************************************************************************)
(* Security headers                                                        *)
(***************************************************************************)
\* C12: every response given to a client carries the seven security
\* headers, with the values of security.py.
C12_SecurityHeadersOnEveryResponse ==
    \A r \in Reqs :
        pc[r] = "done" =>
            \A h \in DOMAIN security_headers :
                /\ h \in DOMAIN resp[r].headers
                /\ resp[r].headers[h] = security_headers[h]

(***************************************************************************)
(* Sensitive fields                                                        *)
(***************************************************************************)
\* No object of the value, at any depth, has a key whose lower-case form is
\* on the denylist.
RECURSIVE NoDeniedKey(_)
NoDeniedKey(data) ==
    IF data.k = "object"
    THEN \A i \in DOMAIN data.members :
            /\ Lower(data.members[i].key) \notin sensitive_fields
            /\ NoDeniedKey(data.members[i].val)
    ELSE IF data.k = "array"
         THEN \A i \in DOMAIN data.items : NoDeniedKey(data.items[i])
    ELSE TRUE

\* out is orig without the members of denylisted names: the other members
\* and all array elements are there, in their places, themselves so kept.
RECURSIVE Kept(_, _)
Kept(orig, out) ==
    IF orig.k = "object"
    THEN LET keep == SelectSeq(orig.members,
                               LAMBDA m : Lower(m.key) \notin sensitive_fields)
         IN /\ out.k = "object"
            /\ Len(out.members) = Len(keep)
            /\ \A i \in DOMAIN keep :
                  /\ out.members[i].key = keep[i].key
                  /\ Kept(keep[i].val, out.members[i].val)
    ELSE IF orig.k = "array"
         THEN /\ out.k = "array"
              /\ Len(out.items) = Len(orig.items)
              /\ \A i \in DOMAIN orig.items : Kept(orig.items[i], out.items[i])
    ELSE out = orig

ParsedJson(rsp) == rsp.content_type = "application/json" /\ rsp.parses

\* C13: for every upstream JSON body, the body given to the client and the
\* body written to the cache have no denylisted key at any depth, and keep
\* every other key and every array element in place.
C13_SensitiveFieldsStripped ==
    /\ \A r \in Reqs :
          pc[r] = "done" /\ resp[r].from = "upstream" /\ ParsedJson(resp[r].upstream) =>
              /\ NoDeniedKey(resp[r].body)
              /\ Kept(resp[r].upstream.data, resp[r].body)
    /\ \A r \in Reqs :
          pc[r] = "done" /\ resp[r].from = "cache" => NoDeniedKey(resp[r].body)
    /\ \A key \in DOMAIN cache :
          ParsedJson(cache[key].upstream) =>
              /\ NoDeniedKey(JsonLoads(cache[key].text))
              /\ Kept(cache[key].upstream.data, JsonLoads(cache[key].text))

\* The nested body with denylisted keys at three places was answered, given
\* to the client, and cached.
C13_Witness ==
    /\ \E r \in Reqs :
          /\ pc[r] = "done"
          /\ resp[r].from = "upstream"
          /\ resp[r].upstream.data = BodyProfile
          /\ resp[r].body # BodyProfile
    /\ \E key \in DOMAIN cache :
          /\ cache[key].upstream.data = BodyProfile
          /\ JsonLoads(cache[key].text) # BodyProfile

(***************************************************************************)
(* Failures of the coordination store                                      *)
(***************************************************************************)
\* C14: a store failure during a circuit operation is answered 503, a store
\* failure during the rate-limit check lets the request continue, and
\* neither surfaces as another error.
C14_StoreFailureHandling ==
    \A r \in Reqs :
        pc[r] = "done" =>
            /\ resp[r].from = "store_at_circuit" => resp[r].status = 503
            /\ resp[r].from # "store_at_rate_limit"

(***************************************************************************)
(* The outcome of the upstream call                                        *)
(***************************************************************************)
\* C15: a transport error of the upstream call is answered 502 and a
\* timeout 504, each after one recorded circuit failure.
C15_ForwardErrorMapping ==
    \A r \in Reqs :
        pc[r] = "done" =>
            /\ resp[r].from = "transport" => resp[r].status = 502
            /\ resp[r].from = "timeout" => resp[r].status = 504

(***************************************************************************)
(* The circuit record under concurrent requests                            *)
(***************************************************************************)
\* C16: on a half_open circuit record_success stores closed, and
\* record_failure stores open with last_failure_time stamped, whatever
\* failure_count holds.
C16_HalfOpenTransitions ==
    [][\A r \in Reqs :
          LET s == ServiceOf(req[r])
          IN /\ /\ pc[r] = "inflight"
                /\ pc'[r] = "done"
                /\ circuit[s].state = "half_open"
                => circuit'[s].state = "closed"
             /\ /\ pc[r] \in {"failure_read", "failure_open"}
                /\ pc'[r] = "done"
                /\ loc[r].found = "half_open"
                /\ circuit[s].state = "half_open"
                => /\ circuit'[s].state = "open"
                   /\ circuit'[s].last_failure_time # NoField]_vars

\* C17: in every state reachable by interleaving the store commands of
\* record_success, record_failure and can_attempt_request, the state is one
\* of closed, open, half_open, failure_count is not negative, and an open
\* circuit has its last_failure_time.
C17_CircuitRecordInvariant ==
    \A s \in Services :
        /\ get_circuit_state(circuit[s]) \in {"closed", "open", "half_open"}
        /\ ReadFailureCount(circuit[s]) >= 0
        /\ circuit[s].state = "open" => circuit[s].last_failure_time # NoField

(***************************************************************************)
(* Round-robin selection                                                   *)
(***************************************************************************)
\* The cursor of a worker for a service; a service not yet selected has its
\* cursor at the start.
Cursor(r, s) == IF current_index[r][s] = NoField THEN 0 ELSE current_index[r][s]

\* C18: for each service the i-th selection (from 0) returns
\* urls[i mod len(urls)], the cursor stays within 0..len(urls)-1 and depends
\* on the selections of its own service only, any len(urls) selections in a
\* row return each replica once, and a call that finds no replica changes no
\* cursor.
C18_RoundRobin ==
    \A r \in Reqs, s \in Services :
        LET urls == MICROSERVICES[s]
            picked == balancer_log[r].picked[s]
        IN /\ 0 <= Cursor(r, s) /\ Cursor(r, s) < Len(urls)
           /\ Cursor(r, s) = Len(picked) % Len(urls)
           /\ \A i \in DOMAIN picked : picked[i] = urls[((i - 1) % Len(urls)) + 1]
           /\ \A i \in DOMAIN picked :
                 i + Len(urls) - 1 <= Len(picked) =>
                     \A u \in DOMAIN urls :
                         Cardinality({j \in i..(i + Len(urls) - 1) :
                                         picked[j] = urls[u]}) = 1

\* A worker went round the two replicas of user-service and further, chose
\* for order-service too, and was asked for a service that is not configured.
C18_Witness ==
    \E r \in Reqs :
        /\ Len(balancer_log[r].picked["user-service"]) >= 3
        /\ Len(balancer_log[r].picked["order-service"]) >= 1
        /\ balancer_log[r].refused >= 1

(***************************************************************************)
(* Circuit feedback per request                                            *)
(***************************************************************************)
\* The fields of the circuit records that count failures.
FailureFields(c) == <<c.failure_count, c.last_failure_time>>

\* C19: a request at the forward step makes one upstream call and then one
\* record_success (the upstream answered) or one record_failure (the call
\* raised), never both and never again; no other step of any request changes
\* failure_count or last_failure_time.
C19_FeedbackExactlyOnce ==
    [][/\ \A r \in Reqs :
             /\ pc[r] = "forward" => pc'[r] \in {"forward", "inflight"}
             /\ pc[r] = "inflight" /\ pc'[r] # "inflight" =>
                   LET s == ServiceOf(req[r])
                   IN \/ /\ pc'[r] = "done"
                         /\ resp'[r].from = "upstream"
                         /\ circuit'[s].state = "closed"
                         /\ FailureFields(circuit'[s]) = <<NoField, NoField>>
                      \/ /\ pc'[r] = "failure_read"
                         /\ circuit'[s].failure_count
                                = ReadFailureCount(circuit[s]) + 1
                         /\ circuit'[s].last_failure_time = now
                         /\ circuit'[s].state = circuit[s].state
             /\ pc[r] \in {"failure_read", "failure_open"} =>
                   /\ pc'[r] \in {"failure_read", "failure_open", "done"}
                   /\ pc'[r] = "done" => resp'[r].status \in {502, 504}
       /\ \A s \in Services :
             FailureFields(circuit'[s]) # FailureFields(circuit[s]) =>
                 \E r \in Reqs :
                     /\ pc[r] = "inflight"
                     /\ pc'[r] \in {"done", "failure_read"}
                     /\ ServiceOf(req[r]) = s]_vars

\* Two forwarded requests failed and were counted once each, and a third
\* request, turned away by the open circuit, left the count as it was.
C19_Witness ==
    \E r \in Reqs :
        /\ pc[r] = "done"
        /\ resp[r].status = 503
        /\ circuit[ServiceOf(req[r])].failure_count = CIRCUIT_BREAKER_FAILURE_THRESHOLD

(***************************************************************************)
(* The rate bucket after a decision                                        *)
(***************************************************************************)
\* The timestamps of a bucket that lie inside the window ending at t.
InWindow(members, t) == {x \in members : t - RATE_LIMIT_WINDOW < x /\ x <= t}

\* C20: right after every check_rate_limit decision taken at time now,
\* accepted or rejected, every timestamp of the bucket lies in
\* (now - W, now], the bucket holds now, its expiry is W seconds away, and
\* the call was accepted exactly when the bucket, trimmed to the window and
\* before the insertion, held fewer timestamps than the limit.
C20_BucketAfterDecision ==
    [][\A u \in UserIds :
          limiter_log'[u].calls = limiter_log[u].calls + 1 =>
              /\ rate_limit'[u].members = InWindow(rate_limit'[u].members, now)
              /\ now \in rate_limit'[u].members
              /\ rate_limit'[u].members
                     = InWindow(rate_limit[u].members, now) \union {now}
              /\ rate_limit'[u].expire_at = now + RATE_LIMIT_WINDOW
              /\ (limiter_log'[u].accepted[1] = limiter_log[u].accepted[1] + 1)
                     <=> (Cardinality(InWindow(rate_limit[u].members, now))
                              < LimitFor(u))
              /\ limiter_log'[u].accepted[1] - limiter_log[u].accepted[1]
                     \in {0, 1}]_vars

\* A call was rejected at a time when the trim had timestamps to drop, and
\* the bucket holds the second of that rejected call.
C20_Witness ==
    \E u \in UserIds :
        /\ now >= RATE_LIMIT_WINDOW
        /\ limiter_log[u].calls >= 1
        /\ limiter_log[u].accepted[1] < limiter_log[u].calls
        /\ now \in rate_limit[u].members

(***************************************************************************)
(* Recovery of an open circuit                                             *)
(***************************************************************************)
\* No request is between two store commands: every worker is idle or has
\* answered, so nothing but a new request touches the circuit records.
Quiescent == \A r \in Reqs : pc[r] \in {"idle", "done"}

\* Some time at which can_attempt_request, reading this record with no
\* further failure recorded, passes the recovery test and stores half_open.
CanRecover(c) ==
    \E t \in 0..(MaxTime + CIRCUIT_BREAKER_RECOVERY_TIMEOUT) :
        RecoveryElapsed(c.last_failure_time, t)

\* C21: whenever the interleaved record_failure and record_success calls
\* have all finished and left a circuit open, an admission check made once
\* the recovery timeout has elapsed answers true; no open circuit refuses
\* forever.
C21_OpenCircuitCanRecover ==
    \A s \in Services :
        Quiescent /\ circuit[s].state = "open" => CanRecover(circuit[s])

(***************************************************************************)
(* The lifetime of the revocation set                                      *)
(***************************************************************************)
\* The last revoke_token call of any token is less than the TTL ago.
WithinTtlOfLastRevoke ==
    /\ revoked_tokens.last_at # NoField
    /\ now - revoked_tokens.last_at < REVOKED_TOKENS_TTL

C23_NoCrossPrincipalHit ==
    [][\A r \in Reqs :
          /\ pc[r] = "route"
          /\ pc'[r] = "done"
          /\ resp'[r].from = "cache"
          => LET stored == cache[CacheKeyOf(req[r])]
             IN /\ resp'[r].body = JsonLoads(stored.text)
                /\ stored.by.method = req[r].method
                /\ stored.by.path = req[r].path
                /\ query_params(stored.by) = query_params(req[r])
                /\ Subject(stored.by) = Subject(req[r])]_vars

(***************************************************************************)
(* Recovery of a rate-limited principal                                    *)
(***************************************************************************)
\* The call of principal u in this step.
LimiterCalled(u) == limiter_log'[u].calls = limiter_log[u].calls + 1

\* C24: whatever calls were accepted and rejected before, a call of a
\* principal with a limit of at least 1, made W seconds or more after the
\* principal's last call (or as its first call), is accepted; every call,
\* a rejected one too, puts its timestamp into the bucket and renews the
\* TTL, and a call made less than W seconds after the last one, whatever
\* its outcome was, still finds that timestamp in the bucket.
C24_AcceptedAfterIdleWindow ==
    [][\A u \in UserIds :
          LimiterCalled(u) =>
              /\ /\ LimitFor(u) >= 1
                 /\ \/ limiter_log[u].last_at = NoField
                    \/ now - limiter_log[u].last_at >= RATE_LIMIT_WINDOW
                 => limiter_log'[u].accepted[1] = limiter_log[u].accepted[1] + 1
              /\ /\ limiter_log[u].last_at # NoField
                 /\ now - limiter_log[u].last_at < RATE_LIMIT_WINDOW
                 => limiter_log[u].last_at \in rate_limit'[u].members
              /\ now \in rate_limit'[u].members
              /\ rate_limit'[u].expire_at = now + RATE_LIMIT_WINDOW]_vars

\* A principal came back W seconds or more after its previous call and was
\* accepted.
C24_Witness ==
    \E u \in UserIds :
        /\ limiter_log[u].last_at = now
        /\ limiter_log[u].idle # NoField
        /\ limiter_log[u].idle >= RATE_LIMIT_WINDOW
        /\ limiter_log[u].calls = 1
        /\ limiter_log[u].accepted[1] = 1

====
